---- MODULE Spec2Model ----
(***************************************************************************)
(* Model of ReactNativeZoomableView (src/src/typings/index.ts): the        *)
(* gesture-to-transform engine of a pinch-to-zoom / pan view.              *)
(*                                                                         *)
(* Numbers are exact rationals <<n, d>> (d > 0, lowest terms), so that     *)
(* the code's divisions by the zoom level and its toFixed comparisons are  *)
(* computed, not assumed.  <<0, 0>> stands for null / undefined.           *)
(***************************************************************************)
EXTENDS Integers, Sequences, FiniteSets, TLC

\* ------------------------------------------------------------------------
\* Exact arithmetic
\* ------------------------------------------------------------------------

Abs(i) == IF i < 0 THEN -i ELSE i

RECURSIVE Gcd(_, _)
Gcd(a, b) == IF b = 0 THEN a ELSE Gcd(b, a % b)

\* the rational n/d in lowest terms with a positive denominator
R(n, d) ==
  LET g == Gcd(Abs(n), Abs(d))
      sg == IF d < 0 THEN -1 ELSE 1
  IN  <<(sg * n) \div g, (sg * d) \div g>>

I(n) == <<n, 1>>

NULL == <<0, 0>>

\* the operations cancel common factors before they multiply, to keep the
\* intermediate products small; an operand that is not a number gives not a
\* number
RAdd(a, b) ==
  IF a = NULL \/ b = NULL THEN NULL
  ELSE LET g == Gcd(a[2], b[2])
       IN  R(a[1] * (b[2] \div g) + b[1] * (a[2] \div g), (a[2] \div g) * b[2])
RMul(a, b) ==
  IF a = NULL \/ b = NULL THEN NULL
  ELSE LET g1 == Gcd(Abs(a[1]), b[2])
           g2 == Gcd(Abs(b[1]), a[2])
       IN  R((a[1] \div g1) * (b[1] \div g2), (a[2] \div g2) * (b[2] \div g1))
RDiv(a, b) == RMul(a, IF b[1] < 0 THEN <<-b[2], -b[1]>> ELSE <<b[2], b[1]>>)
RNeg(a) == <<-a[1], a[2]>>
RSub(a, b) == RAdd(a, RNeg(b))
RLt(a, b) ==
  LET g == Gcd(a[2], b[2])
  IN  a[1] * (b[2] \div g) < b[1] * (a[2] \div g)
RGt(a, b) == RLt(b, a)
RLe(a, b) == ~RLt(b, a)
RAbs(a) == <<Abs(a[1]), a[2]>>
RMid(a, b) == RDiv(RAdd(a, b), I(2))

\* JavaScript truthiness of a number-or-null: null, undefined and 0 are falsy
Truthy(a) == a # NULL /\ a[1] # 0

\* Number.prototype.toFixed(digits): the sign, then |x| rounded to `digits`
\* decimals (ties to the larger magnitude); the result is the pair
\* <<negative, round(|x| * 10^digits)>>, which is equal exactly when the
\* two strings are ("-0.00" and "0.00" are different strings).
Pow10(k) == IF k = 2 THEN 100 ELSE 1000
ToFixed(x, digits) ==
  LET m == Pow10(digits)
      a == RAbs(x)
      q == a[1] \div a[2]
      r == a[1] % a[2]
  IN  <<x[1] < 0, q * m + (2 * r * m + a[2]) \div (2 * a[2])>>

\* integer square root of a perfect square
Sqrt(n) == CHOOSE r \in 0..n : r * r = n

\* ------------------------------------------------------------------------
\* Props
\* ------------------------------------------------------------------------

\* static defaultProps; the callbacks that can veto (onShiftingBefore,
\* onZoomBefore) are recorded by whether the client passes one that may
\* return true. disableMomentum and doubleTapZoomToCenter have no default
\* (undefined, falsy).
defaultProps ==
  [ zoomEnabled |-> TRUE,
    panEnabled |-> TRUE,
    initialZoom |-> I(1),
    initialOffsetX |-> I(0),
    initialOffsetY |-> I(0),
    maxZoom |-> R(3, 2),
    minZoom |-> R(1, 2),
    pinchToZoomInSensitivity |-> I(1),
    pinchToZoomOutSensitivity |-> I(1),
    movementSensibility |-> I(1),
    doubleTapDelay |-> 300,
    bindToBorders |-> TRUE,
    zoomStep |-> R(1, 2),
    onLongPress |-> FALSE,
    longPressDuration |-> 700,
    contentWidth |-> NULL,
    contentHeight |-> NULL,
    panBoundaryPadding |-> I(0),
    staticPinPosition |-> <<NULL, NULL>>,
    disablePanOnInitialZoom |-> FALSE,
    disableMomentum |-> FALSE,
    doubleTapZoomToCenter |-> FALSE,
    onShiftingBefore |-> FALSE,
    onZoomBefore |-> FALSE ]

With(base, over) ==
  [k \in DOMAIN base |-> IF k \in DOMAIN over THEN over[k] ELSE base[k]]

\* The props a client mounts the component with, in Spec
PropChoices ==
  { defaultProps,
    With(defaultProps, [disableMomentum |-> TRUE, onShiftingBefore |-> TRUE]),
    With(defaultProps, [bindToBorders |-> FALSE, minZoom |-> I(0), maxZoom |-> I(2)]),
    With(defaultProps, [zoomEnabled |-> FALSE]) }

\* the props the tap-to-move is checked with: a pin at the centre of the view
PinPropChoices ==
  { With(defaultProps, [staticPinPosition |-> <<I(150), I(100)>>,
                        contentWidth |-> I(300), contentHeight |-> I(200),
                        bindToBorders |-> FALSE]) }

\* the props the long press is checked with
PressPropChoices ==
  { With(defaultProps, [onLongPress |-> TRUE, longPressDuration |-> 200]) }

\* the props the gestures are checked with where a callback may veto a zoom
\* step or panning is disabled
GesturePropChoices ==
  { With(defaultProps, [onZoomBefore |-> TRUE]),
    With(defaultProps, [panEnabled |-> FALSE]),
    With(defaultProps, [disablePanOnInitialZoom |-> TRUE]) }

\* and in SpecTap
TapPropChoices ==
  { defaultProps,
    With(defaultProps, [zoomStep |-> R(1, 4)]),
    With(defaultProps, [zoomStep |-> R(62, 125)]),
    With(defaultProps, [minZoom |-> I(0), maxZoom |-> I(2), zoomStep |-> I(1)]),
    With(defaultProps, [maxZoom |-> NULL]),
    With(defaultProps, [zoomStep |-> NULL, doubleTapZoomToCenter |-> TRUE]) }

\* ------------------------------------------------------------------------
\* State
\* ------------------------------------------------------------------------

VARIABLES
  props,            \* this.props (fixed after mount)
  originalWidth,    \* this.state.originalWidth
  originalHeight,   \* this.state.originalHeight
  originalPageX,    \* this.state.originalPageX
  originalPageY,    \* this.state.originalPageY
  offsets,          \* this.__offsets: per axis value, boundaryCrossedAnimInEffect
  zoomLevel,        \* this.zoomLevel
  panAnim,          \* this.panAnim: per axis current value and running animation
  panGroup,         \* the running composite pan animation's start() callback
  zoomAnim,         \* this.zoomAnim: value, running animation, zoomTo's listener
  gestureType,      \* this.gestureType: "null", "pinch", "shift"
  gestureStarted,   \* this._gestureStarted
  lastGestureCenterPosition,
  lastGestureTouchDistance,
  responder,        \* PanResponder: the touch sequence the view is responder of
  longPressTimeout, \* this.longPressTimeout: the pending timer's deadline
  singleTapTimeoutId,
  doubleTapFirstTapReleaseTimestamp,
  doubleTapFirstTap,
  timers,           \* pending setTimeout callbacks (single tap, long press)
  timerSeq,         \* number of timers created so far (the last timer id)
  now,              \* Date.now()
  taps,             \* history: the taps resolved so far
  last,             \* history: the last operation, its arguments and result
  calls,            \* history: the callbacks the last operation invoked, in order
  nOps,             \* history: number of client operations and touch events so far
  earlyOps          \* history: how many of them came before the view was measured

vars ==
  << props, originalWidth, originalHeight, originalPageX, originalPageY,
     offsets, zoomLevel, panAnim, panGroup, zoomAnim, gestureType,
     gestureStarted, lastGestureCenterPosition, lastGestureTouchDistance,
     responder, longPressTimeout, singleTapTimeoutId,
     doubleTapFirstTapReleaseTimestamp, doubleTapFirstTap, timers, timerSeq,
     now,
     taps, last, calls, nOps, earlyOps >>

Axes == {"x", "y"}

NoAnim == [kind |-> "none", to |-> NULL, mid |-> FALSE, grp |-> FALSE]

Ax(p, a) == IF a = "x" THEN p[1] ELSE p[2]

\* the instance fields the handlers read and write, as one record, so that a
\* handler's statements compose in program order
Self ==
  [ offsets |-> offsets, zoomLevel |-> zoomLevel, panAnim |-> panAnim,
    panGroup |-> panGroup, zoomAnim |-> zoomAnim,
    gestureType |-> gestureType, gestureStarted |-> gestureStarted,
    lastGestureCenterPosition |-> lastGestureCenterPosition,
    lastGestureTouchDistance |-> lastGestureTouchDistance,
    longPressTimeout |-> longPressTimeout,
    singleTapTimeoutId |-> singleTapTimeoutId,
    doubleTapFirstTapReleaseTimestamp |-> doubleTapFirstTapReleaseTimestamp,
    doubleTapFirstTap |-> doubleTapFirstTap,
    timers |-> timers, timerSeq |-> timerSeq, taps |-> taps, calls |-> <<>> ]

Commit(s) ==
  /\ offsets' = s.offsets
  /\ zoomLevel' = s.zoomLevel
  /\ panAnim' = s.panAnim
  /\ panGroup' = s.panGroup
  /\ zoomAnim' = s.zoomAnim
  /\ gestureType' = s.gestureType
  /\ gestureStarted' = s.gestureStarted
  /\ lastGestureCenterPosition' = s.lastGestureCenterPosition
  /\ lastGestureTouchDistance' = s.lastGestureTouchDistance
  /\ longPressTimeout' = s.longPressTimeout
  /\ singleTapTimeoutId' = s.singleTapTimeoutId
  /\ doubleTapFirstTapReleaseTimestamp' = s.doubleTapFirstTapReleaseTimestamp
  /\ doubleTapFirstTap' = s.doubleTapFirstTap
  /\ timers' = s.timers
  /\ timerSeq' = s.timerSeq
  /\ taps' = s.taps
  /\ calls' = s.calls

Call(s, name) == [s EXCEPT !.calls = Append(@, name)]

\* Rest of the value v: the statements of a handler run in program order,
\* each on the state the one before it has left
Then(v, Rest(_)) == CHOOSE r \in {Rest(x) : x \in {v}} : TRUE

\* ------------------------------------------------------------------------
\* Geometry helpers (./helper, not part of the sources at hand)
\* ------------------------------------------------------------------------

\* helper/applyPanBoundariesToOffset: the offset kept inside the pan
\* boundaries of a content of contentSize shown at `scale` in a container of
\* containerSize, with boundaryPadding of slack on both sides.
applyPanBoundariesToOffset(offsetScaled, containerSize, contentSize, scale, boundaryPadding) ==
  LET contentSizeUnscaled == RMul(contentSize, scale)
      offsetUnscaled == RMul(offsetScaled, scale)
      contentStartBorderUnscaled ==
        RSub(RAdd(RDiv(containerSize, I(2)), offsetUnscaled),
             RDiv(contentSizeUnscaled, I(2)))
      contentEndBorderUnscaled == RAdd(contentStartBorderUnscaled, contentSizeUnscaled)
      padding == IF RLt(boundaryPadding, I(0)) THEN I(0)
                 ELSE IF RGt(boundaryPadding, containerSize) THEN containerSize
                 ELSE boundaryPadding
      paddedContainerSize == RSub(containerSize, RMul(I(2), padding))
      paddedContainerStartBorder == padding
      paddedContainerEndBorder == RSub(containerSize, padding)
      contentMaxOffsetScaled ==
        RDiv(RSub(RDiv(paddedContainerSize, I(2)), RDiv(contentSizeUnscaled, I(2))),
             scale)
  IN  IF RLt(contentSizeUnscaled, paddedContainerSize) THEN I(0)
      ELSE IF RLt(contentEndBorderUnscaled, paddedContainerEndBorder)
        THEN contentMaxOffsetScaled
      ELSE IF RGt(contentStartBorderUnscaled, paddedContainerStartBorder)
        THEN RNeg(contentMaxOffsetScaled)
      ELSE offsetScaled

\* helper/calcNewScaledOffsetForZoomCentering: the offset that keeps
\* zoomCenter at the same place on screen when the scale changes.
calcNewScaledOffsetForZoomCentering(oldOffsetScaled, size, oldScale, newScale, zoomCenter) ==
  LET oldOffsetUnscaled == RMul(oldOffsetScaled, oldScale)
      growthRate == RDiv(newScale, oldScale)
      originalCenter == RDiv(size, I(2))
      currentCenter == RAdd(originalCenter, oldOffsetUnscaled)
      centerToZoomCenter == RSub(currentCenter, zoomCenter)
      newCenter == RAdd(RMul(centerToZoomCenter, growthRate), zoomCenter)
  IN  RDiv(RSub(newCenter, originalCenter), newScale)

\* helper/calcGestureCenterPoint: the touch itself, or the midpoint of two
\* touches; null for any other number of touches.
calcGestureCenterPoint(touches) ==
  IF Len(touches) = 1 THEN touches[1]
  ELSE IF Len(touches) = 2
    THEN <<RMid(touches[1][1], touches[2][1]), RMid(touches[1][2], touches[2][2])>>
  ELSE <<NULL, NULL>>

\* helper/calcGestureTouchDistance: the distance between two touches; null
\* unless there are exactly two.
calcGestureTouchDistance(touches) ==
  IF Len(touches) # 2 THEN NULL
  ELSE LET dx == RAbs(RSub(touches[1][1], touches[2][1]))
           dy == RAbs(RSub(touches[1][2], touches[2][2]))
       IN  IF dy[1] = 0 THEN dx
           ELSE IF dx[1] = 0 THEN dy
           ELSE I(Sqrt(dx[1] * dx[1] + dy[1] * dy[1]))

\* ------------------------------------------------------------------------
\* Static pin
\* ------------------------------------------------------------------------

\* _staticPinPosition is defined when the pin and the content size are given
HasStaticPinPosition ==
  /\ props.staticPinPosition # <<NULL, NULL>>
  /\ Truthy(props.contentWidth) /\ Truthy(props.contentHeight)

_updateStaticPin(s) ==
  IF HasStaticPinPosition THEN Call(s, "onStaticPinPositionChange") ELSE s

\* ------------------------------------------------------------------------
\* Animated values: stop, start, setValue, and the listeners of the
\* constructor
\* ------------------------------------------------------------------------

\* one member of a composite animation on panAnim has ended: when it was the
\* last one, the composite's start() callback runs
PanGroupMemberEnded(s) ==
  IF s.panGroup.left = 0 /\ s.panGroup.cb = "updateStaticPin"
    THEN _updateStaticPin([s EXCEPT !.panGroup.cb = "none"])
    ELSE s

\* the animation `an` of panAnim[axis] has ended: the callback of a boundary
\* animation resets boundaryCrossedAnimInEffect
PanAnimEnded(s, axis, an) ==
  IF an.kind = "boundary"
    THEN [s EXCEPT !.offsets[axis].boundaryCrossedAnimInEffect = FALSE]
  ELSE IF an.grp
    THEN PanGroupMemberEnded([s EXCEPT !.panGroup.left = @ - 1])
  ELSE s

\* Animated.Value.stopAnimation on panAnim[axis]: the running animation ends
\* unfinished and its start() callback runs
StopPanAxis(s, axis) ==
  IF s.panAnim[axis].anim.kind = "none" THEN s
  ELSE PanAnimEnded([s EXCEPT !.panAnim[axis].anim = NoAnim], axis,
                    s.panAnim[axis].anim)

\* getBoundaryCrossedAnim(this.panAnim[axis], toValue).start(callback)
StartBoundaryCrossedAnim(s, axis, toValue) ==
  LET s1 == StopPanAxis(s, axis)
  IN  [s1 EXCEPT !.panAnim[axis].anim =
         [kind |-> "boundary", to |-> toValue, mid |-> FALSE, grp |-> FALSE]]

ContainerSize(axis) == IF axis = "x" THEN I(originalWidth) ELSE I(originalHeight)

ContentSize(axis) ==
  IF axis = "x"
    THEN (IF Truthy(props.contentWidth) THEN props.contentWidth ELSE I(originalWidth))
    ELSE (IF Truthy(props.contentHeight) THEN props.contentHeight ELSE I(originalHeight))

\* the offset __setOffset compares the new offset with
BoundOffset(axis, offset, scale) ==
  IF /\ Truthy(ContentSize(axis)) /\ Truthy(ContainerSize(axis))
     /\ props.panBoundaryPadding # NULL
    THEN applyPanBoundariesToOffset(offset, ContainerSize(axis), ContentSize(axis),
                                    scale, props.panBoundaryPadding)
    ELSE offset

BoundariesApplied(boundOffset, offset) ==
  boundOffset # offset /\ ToFixed(boundOffset, 3) # ToFixed(offset, 3)

\* __setOffset without the test of boundaryCrossedAnimInEffect
SetOffsetWithinUnflagged(s, axis, offset, boundOffset) ==
  IF /\ props.bindToBorders
     /\ s.gestureType = "null"
     /\ BoundariesApplied(boundOffset, offset)
    THEN StartBoundaryCrossedAnim(
           [s EXCEPT !.offsets[axis].boundaryCrossedAnimInEffect = TRUE],
           axis, boundOffset)
    ELSE [s EXCEPT !.offsets[axis].value = offset]

\* __setOffset, once the bound offset is computed
SetOffsetWithin(s, axis, offset, boundOffset) ==
  IF /\ props.bindToBorders
     /\ s.gestureType = "null"
     /\ ~s.offsets[axis].boundaryCrossedAnimInEffect
     /\ BoundariesApplied(boundOffset, offset)
    THEN StartBoundaryCrossedAnim(
           [s EXCEPT !.offsets[axis].boundaryCrossedAnimInEffect = TRUE],
           axis, boundOffset)
    ELSE [s EXCEPT !.offsets[axis].value = offset]

\* the setters of offsetX and offsetY
__setOffset(s, axis, offset) ==
  SetOffsetWithin(s, axis, offset, BoundOffset(axis, offset, s.zoomLevel))

\* the listener the constructor adds to panAnim; a ValueXY calls it with
\* both coordinates whenever either changes
PanListener(s) ==
  Then(__setOffset(s, "x", s.panAnim["x"].value),
       LAMBDA s1 : __setOffset(s1, "y", s.panAnim["y"].value))

\* Animated.Value.setValue on panAnim[axis]
PanAxisSetValue(s, axis, v) ==
  Then(StopPanAxis(s, axis),
       LAMBDA s1 : PanListener([s1 EXCEPT !.panAnim[axis].value = v]))

\* this.panAnim.setValue({x, y}): x first, then y
PanSetValue(s, x, y) ==
  Then(PanAxisSetValue(s, "x", x), LAMBDA s1 : PanAxisSetValue(s1, "y", y))

\* this.panAnim.stopAnimation()
PanStopAnimation(s) == StopPanAxis(StopPanAxis(s, "x"), "y")

\* a composite animation on panAnim (Animated.decay / Animated.timing on a
\* ValueXY): one animation per axis, started x first; the callback, when
\* there is one, runs when both have ended
StartPanXY(s, kind, toX, toY, cb) ==
  LET s1 == StopPanAxis(s, "x")
      s2 == StopPanAxis(s1, "y")
      an(to) == [kind |-> kind, to |-> to, mid |-> FALSE, grp |-> cb # "none"]
  IN  [s2 EXCEPT !.panAnim["x"].anim = an(toX),
                 !.panAnim["y"].anim = an(toY),
                 !.panGroup = IF cb # "none" THEN [left |-> 2, cb |-> cb] ELSE @]

\* this.zoomAnim.stopAnimation(): zoomTo's callback removes its listener
ZoomStopAnimation(s) ==
  [s EXCEPT !.zoomAnim.anim = NoAnim, !.zoomAnim.listener.on = FALSE]

\* this.zoomAnim.setValue(v): the constructor's listener stores the level
ZoomSetValue(s, v) ==
  LET s1 == ZoomStopAnimation(s)
  IN  [s1 EXCEPT !.zoomAnim.value = v, !.zoomLevel = v]

\* ------------------------------------------------------------------------
\* Imperative methods
\* ------------------------------------------------------------------------

\* Animated.timing's callback-less start on zoomAnim, as zoomTo does it: the
\* previous animation is stopped (its callback removes its listener), then
\* the new one runs; with a zoom center a listener moves panAnim along.
StartZoomToAnimation(s, newZoomLevel, zoomCenter) ==
  LET s1 == ZoomStopAnimation(s)
  IN  [s1 EXCEPT
         !.zoomAnim.anim = [kind |-> "timing", to |-> newZoomLevel,
                            mid |-> FALSE, grp |-> FALSE],
         !.zoomAnim.listener =
            IF zoomCenter # <<NULL, NULL>>
              THEN [on |-> TRUE, prevScale |-> s.zoomLevel, center |-> zoomCenter]
              ELSE @]

\* the three early returns of zoomTo
ZoomToRejects(newZoomLevel) ==
  \/ ~props.zoomEnabled
  \/ Truthy(props.maxZoom) /\ RGt(newZoomLevel, props.maxZoom)
  \/ Truthy(props.minZoom) /\ RLt(newZoomLevel, props.minZoom)

\* zoomTo(newZoomLevel, zoomCenter): the state after it and what it returns
zoomTo(s, newZoomLevel, zoomCenter) ==
  IF ZoomToRejects(newZoomLevel) THEN [s |-> s, result |-> FALSE]
  ELSE LET s1 == Call(s, "onZoomBefore")
           s2 == StartZoomToAnimation(s1, newZoomLevel, zoomCenter)
       IN  [s |-> Call(s2, "onZoomAfter"), result |-> TRUE]

\* a zoomBy that does not fall back to zoomStep
ZoomByChangeNoFallback(zoomLevelChange) == zoomLevelChange

\* zoomLevelChange ||= this.props.zoomStep || 0
ZoomByChange(zoomLevelChange) ==
  IF Truthy(zoomLevelChange) THEN zoomLevelChange
  ELSE IF Truthy(props.zoomStep) THEN props.zoomStep
  ELSE I(0)

zoomBy(s, zoomLevelChange) ==
  zoomTo(s, RAdd(s.zoomLevel, ZoomByChange(zoomLevelChange)), <<NULL, NULL>>)

\* this.panAnim.setValue({ x: this.offsetX, y: this.offsetY })
PanSetValueToOffsets(s) ==
  PanSetValue(s, s.offsets["x"].value, s.offsets["y"].value)

\* this.zoomAnim.setValue(this.zoomLevel)
ZoomSetValueToLevel(s) == ZoomSetValue(s, s.zoomLevel)

\* _setNewOffsetPosition without the early return after onShiftingBefore
_setNewOffsetPositionNoVeto(s, newOffsetX, newOffsetY, veto) ==
  Then(__setOffset(Call(s, "onShiftingBefore"), "x", newOffsetX),
    LAMBDA s1 : Then(__setOffset(s1, "y", newOffsetY),
    LAMBDA s2 : Then(PanSetValueToOffsets(s2),
    LAMBDA s3 : Call(ZoomSetValueToLevel(s3), "onShiftingAfter"))))

\* _setNewOffsetPosition; veto is what onShiftingBefore returns
_setNewOffsetPosition(s, newOffsetX, newOffsetY, veto) ==
  IF veto THEN Call(s, "onShiftingBefore")
  ELSE Then(__setOffset(Call(s, "onShiftingBefore"), "x", newOffsetX),
         LAMBDA s1 : Then(__setOffset(s1, "y", newOffsetY),
         LAMBDA s2 : Then(PanSetValueToOffsets(s2),
         LAMBDA s3 : Call(ZoomSetValueToLevel(s3), "onShiftingAfter"))))

Unmeasured == originalWidth = 0 \/ originalHeight = 0

\* -((newOffset - original / 2) / this.zoomLevel)
MoveToOffset(position, size, zoom) ==
  RNeg(RDiv(RSub(position, RDiv(I(size), I(2))), zoom))

moveTo(s, newOffsetX, newOffsetY, veto) ==
  IF Unmeasured THEN s
  ELSE _setNewOffsetPosition(s,
         MoveToOffset(newOffsetX, originalWidth, s.zoomLevel),
         MoveToOffset(newOffsetY, originalHeight, s.zoomLevel), veto)

MoveByOffset(offset, zoom, offsetChange) ==
  RDiv(RSub(RMul(offset, zoom), offsetChange), zoom)

moveBy(s, offsetChangeX, offsetChangeY, veto) ==
  _setNewOffsetPosition(s,
    MoveByOffset(s.offsets["x"].value, s.zoomLevel, offsetChangeX),
    MoveByOffset(s.offsets["y"].value, s.zoomLevel, offsetChangeY), veto)

\* ------------------------------------------------------------------------
\* Double tap
\* ------------------------------------------------------------------------

\* a next zoom step that compares the levels exactly
AtMaxZoomExact(level) == level = props.maxZoom

\* zoomLevel.toFixed(2) === maxZoom.toFixed(2)
AtMaxZoom(level) == ToFixed(level, 2) = ToFixed(props.maxZoom, 2)

\* a next zoom step that is not capped at maxZoom
NextZoomStepUncapped(level) == RMul(level, RAdd(I(1), props.zoomStep))

\* zoomLevel * (1 + zoomStep), capped at maxZoom
NextZoomStepUp(level) ==
  LET nextZoomStep == RMul(level, RAdd(I(1), props.zoomStep))
  IN  IF RGt(nextZoomStep, props.maxZoom) THEN props.maxZoom ELSE nextZoomStep

\* _getNextZoomStep for the zoom level `level`; NULL is "returns nothing"
_getNextZoomStep(level) ==
  IF props.maxZoom = NULL THEN NULL
  ELSE IF AtMaxZoom(level) THEN props.initialZoom
  ELSE IF props.zoomStep = NULL THEN NULL
  ELSE NextZoomStepUp(level)

\* _handleDoubleTap for a release at page position `page`
_handleDoubleTap(s, page) ==
  LET s1 == Call(s, "onDoubleTapBefore")
      nextZoomStep == _getNextZoomStep(s1.zoomLevel)
      zoomPositionCoordinates ==
        IF props.doubleTapZoomToCenter THEN <<I(0), I(0)>>
        ELSE <<RSub(page[1], I(originalPageX)), RSub(page[2], I(originalPageY))>>
      z == zoomTo(s1, nextZoomStep, zoomPositionCoordinates)
  IN  IF nextZoomStep = NULL THEN s1
      ELSE Call(z.s, "onDoubleTapAfter")

\* ------------------------------------------------------------------------
\* Timers and taps
\* ------------------------------------------------------------------------

\* setTimeout(callback, delay): a new pending timer; its id is the result
SetTimeout(s, kind, delay, page) ==
  [s EXCEPT !.timerSeq = @ + 1,
            !.timers = @ \cup {[id |-> s.timerSeq + 1, kind |-> kind,
                                due |-> now + delay, page |-> page]}]

\* clearTimeout(id)
ClearTimeout(s, id) == [s EXCEPT !.timers = {tm \in @ : tm.id # id}]

\* a single-tap timer set to a third of the delay
SingleTapDelayShort == props.doubleTapDelay \div 3

\* the delay of the single-tap timer
SingleTapDelay == props.doubleTapDelay

\* the condition of _resolveAndHandleTap: a first tap is pending and was
\* released less than doubleTapDelay ago
IsSecondTap(s) ==
  /\ s.doubleTapFirstTapReleaseTimestamp # 0
  /\ props.doubleTapDelay # 0
  /\ now - s.doubleTapFirstTapReleaseTimestamp < props.doubleTapDelay

\* _resolveAndHandleTap for a release at page position `page`
_resolveAndHandleTap(s, page) ==
  IF IsSecondTap(s)
    THEN LET s1 == IF s.singleTapTimeoutId # 0
                     THEN ClearTimeout(s, s.singleTapTimeoutId) ELSE s
             s2 == [s1 EXCEPT
                      !.doubleTapFirstTapReleaseTimestamp = 0,
                      !.singleTapTimeoutId = 0,
                      !.doubleTapFirstTap = <<NULL, NULL>>,
                      !.taps = Append(@, [release |-> now, first |-> FALSE,
                                          at |-> <<NULL, NULL>>,
                                          timer |-> 0, singleTap |-> 0,
                                          singleTapAt |-> 0, doubleTap |-> 1])]
         IN  _handleDoubleTap(s2, page)
    ELSE LET s1 == SetTimeout(s, "singleTap", SingleTapDelay, page)
             at == <<RSub(page[1], I(originalPageX)), RSub(page[2], I(originalPageY))>>
         IN  [s1 EXCEPT
                !.doubleTapFirstTapReleaseTimestamp = now,
                !.doubleTapFirstTap = at,
                !.singleTapTimeoutId = s1.timerSeq,
                !.taps = Append(@, [release |-> now, first |-> TRUE, at |-> at,
                                    timer |-> s1.timerSeq, singleTap |-> 0,
                                    singleTapAt |-> 0, doubleTap |-> 0])]

\* the timer callback of _resolveAndHandleTap, for the timer tm
SingleTapTimeout(s, tm) ==
  LET s1 == [s EXCEPT !.doubleTapFirstTapReleaseTimestamp = 0,
                      !.singleTapTimeoutId = 0,
                      !.timers = @ \ {tm}]
      tapX == RSub(props.staticPinPosition[1], s1.doubleTapFirstTap[1])
      tapY == RSub(props.staticPinPosition[2], s1.doubleTapFirstTap[2])
      s2 == IF props.staticPinPosition # <<NULL, NULL>>
               /\ s1.doubleTapFirstTap # <<NULL, NULL>>
              THEN StartPanXY(s1, "timing",
                     RAdd(s1.offsets["x"].value, RDiv(tapX, s1.zoomLevel)),
                     RAdd(s1.offsets["y"].value, RDiv(tapY, s1.zoomLevel)),
                     "updateStaticPin")
              ELSE s1
      s3 == Call(s2, "onSingleTap")
  IN  [s3 EXCEPT !.taps =
         [k \in DOMAIN @ |->
            IF @[k].timer = tm.id
              THEN [@[k] EXCEPT !.singleTap = @ + 1, !.singleTapAt = now]
              ELSE @[k]]]

\* the timer callback of _handlePanResponderGrant
LongPressTimeout(s, tm) ==
  LET s1 == Call([s EXCEPT !.timers = @ \ {tm}], "onLongPress")
  IN  [s1 EXCEPT !.longPressTimeout = 0]

\* this.longPressTimeout = null without the clearTimeout
ClearLongPressFieldOnly(s) == [s EXCEPT !.longPressTimeout = 0]

\* if (this.longPressTimeout) { clearTimeout(...); this.longPressTimeout = null }
ClearLongPress(s) ==
  IF s.longPressTimeout # 0
    THEN [ClearTimeout(s, s.longPressTimeout) EXCEPT !.longPressTimeout = 0]
    ELSE s

\* ------------------------------------------------------------------------
\* Gesture handlers. An event is its touches (page coordinates); a gesture
\* state gs is [n, dx, dy, moveX, moveY, vx, vy] as PanResponder keeps it.
\* ------------------------------------------------------------------------

_handlePanResponderGrant(s) ==
  LET s1 == IF props.onLongPress
              THEN LET st == SetTimeout(s, "longPress", props.longPressDuration,
                                        <<NULL, NULL>>)
                   IN  [st EXCEPT !.longPressTimeout = st.timerSeq]
              ELSE s
      s2 == Call(s1, "onPanResponderGrant")
      s3 == ZoomStopAnimation(PanStopAnimation(s2))
  IN  [s3 EXCEPT !.gestureStarted = TRUE]

\* const disableMomentum = ... of _handlePanResponderEnd
DisableMomentum(s) ==
  \/ props.disableMomentum
  \/ /\ props.panEnabled
     /\ s.gestureType = "shift"
     /\ props.disablePanOnInitialZoom
     /\ s.zoomLevel = props.initialZoom

\* where a decay animation started at `from` with `velocity` comes to rest:
\* from + velocity / (1 - deceleration), deceleration 0.994
DecayRest(from, velocity) == RAdd(from, RMul(velocity, R(500, 3)))

\* getPanMomentumDecayAnim(this.panAnim, {x: vx / zoom, y: vy / zoom}).start()
StartPanMomentumDecayAnim(s, vx, vy) ==
  StartPanXY(s, "decay",
    DecayRest(s.panAnim["x"].value, RDiv(vx, s.zoomLevel)),
    DecayRest(s.panAnim["y"].value, RDiv(vy, s.zoomLevel)), "none")

\* if (!disableMomentum) getPanMomentumDecayAnim(...).start()
StartMomentum(s, gs) ==
  IF ~DisableMomentum(s) THEN StartPanMomentumDecayAnim(s, gs.vx, gs.vy) ELSE s

\* onPanResponderEnd, then onZoomEnd or onShiftingEnd by the gesture's type
GestureEndCallbacks(s) ==
  IF s.gestureType = "pinch" THEN Call(Call(s, "onPanResponderEnd"), "onZoomEnd")
  ELSE IF s.gestureType = "shift"
    THEN Call(Call(s, "onPanResponderEnd"), "onShiftingEnd")
  ELSE Call(s, "onPanResponderEnd")

\* if (this.props.staticPinPosition) this._updateStaticPin()
UpdateStaticPinIfPinned(s) ==
  IF props.staticPinPosition # <<NULL, NULL>> THEN _updateStaticPin(s) ELSE s

\* if (!this.gestureType) this._resolveAndHandleTap(e)
ResolveTapIfNoGesture(s, page) ==
  IF s.gestureType = "null" THEN _resolveAndHandleTap(s, page) ELSE s

\* _handlePanResponderEnd for a release at `page`
_handlePanResponderEnd(s, page, gs) ==
  Then(ResolveTapIfNoGesture(s, page),
    LAMBDA s1 : Then(StartMomentum(
                  [s1 EXCEPT !.lastGestureCenterPosition = <<NULL, NULL>>], gs),
    LAMBDA s2 : Then(GestureEndCallbacks(ClearLongPress(s2)),
    LAMBDA s3 : [UpdateStaticPinIfPinned(s3)
                   EXCEPT !.gestureType = "null", !.gestureStarted = FALSE])))

\* _calcOffsetShiftSinceLastGestureState: the shift (or null) and the state
_calcOffsetShiftSinceLastGestureState(s, gestureCenterPoint) ==
  LET has == /\ s.lastGestureCenterPosition # <<NULL, NULL>>
             /\ Truthy(props.movementSensibility)
      d(i) == RDiv(RDiv(RSub(gestureCenterPoint[i], s.lastGestureCenterPosition[i]),
                        s.zoomLevel), props.movementSensibility)
  IN  [ shift |-> IF has THEN <<d(1), d(2)>> ELSE <<NULL, NULL>>,
        s |-> [s EXCEPT !.lastGestureCenterPosition = gestureCenterPoint] ]

\* the skip condition without its disablePanOnInitialZoom part
ShiftingDisabledByPanEnabled(s) == ~props.panEnabled

\* the skip condition of _handleShifting
ShiftingDisabled(s) ==
  \/ ~props.panEnabled
  \/ props.disablePanOnInitialZoom /\ s.zoomLevel = props.initialZoom

_handleShifting(s, gs, veto) ==
  LET c == _calcOffsetShiftSinceLastGestureState(s, <<gs.moveX, gs.moveY>>)
  IN  IF ShiftingDisabled(s) THEN s
      ELSE IF c.shift = <<NULL, NULL>> THEN c.s
      ELSE _setNewOffsetPosition(c.s,
             RAdd(c.s.offsets["x"].value, c.shift[1]),
             RAdd(c.s.offsets["y"].value, c.shift[2]), veto)

\* "make sure max and min zoom levels are respected"
ClampZoom(newZoomLevel) ==
  LET z1 == IF props.maxZoom # NULL /\ RGt(newZoomLevel, props.maxZoom)
              THEN props.maxZoom ELSE newZoomLevel
  IN  IF props.minZoom # NULL /\ RLt(z1, props.minZoom) THEN props.minZoom ELSE z1

\* zoomGrowthFromLastGestureState < 1 ? pinchToZoomOutSensitivity : ...
PinchToZoomSensitivity(distance, lastDistance) ==
  IF RLt(RDiv(distance, lastDistance), I(1))
    THEN props.pinchToZoomOutSensitivity
    ELSE props.pinchToZoomInSensitivity

\* deltaGrowth * (1 - (pinchToZoomSensitivity * 9) / 100)
DeltaGrowthAdjustedBySensitivity(zoomGrowth, sensitivity) ==
  RMul(RSub(zoomGrowth, I(1)),
       RSub(I(1), RDiv(RMul(sensitivity, I(9)), I(100))))

\* the zoom level a pinch move arrives at, from the distance of the two
\* touches and the distance at the previous move
PinchZoomLevel(level, distance, lastDistance) ==
  ClampZoom(RMul(level,
    RAdd(I(1), DeltaGrowthAdjustedBySensitivity(RDiv(distance, lastDistance),
                 PinchToZoomSensitivity(distance, lastDistance)))))

\* the zoom center of a pinch: the static pin, or the gesture's center
PinchZoomCenter(gestureCenterPoint) ==
  IF props.staticPinPosition # <<NULL, NULL>> THEN props.staticPinPosition
  ELSE <<RSub(gestureCenterPoint[1], I(originalPageX)),
         RSub(gestureCenterPoint[2], I(originalPageY))>>

\* _handlePinching, last part: the offsets and the zoom level are stored and
\* the animated values follow
PinchStore(s, offsetX, offsetY, newZoomLevel) ==
  Then(__setOffset(s, "x", offsetX),
    LAMBDA s1 : Then(__setOffset(s1, "y", offsetY),
    LAMBDA s2 : Then(PanSetValueToOffsets([s2 EXCEPT !.zoomLevel = newZoomLevel]),
    LAMBDA s3 : Call(ZoomSetValueToLevel(s3), "onZoomAfter"))))

\* if (offsetShift) { offsetX += offsetShift.x; offsetY += offsetShift.y }
PinchShifted(c, offsetX, offsetY, newZoomLevel) ==
  IF c.shift # <<NULL, NULL>>
    THEN PinchStore(c.s, RAdd(offsetX, c.shift[1]), RAdd(offsetY, c.shift[2]),
                    newZoomLevel)
    ELSE PinchStore(c.s, offsetX, offsetY, newZoomLevel)

\* _handlePinching from the gesture's center point on
PinchAround(s, newZoomLevel, gestureCenterPoint, zoomCenter) ==
  IF gestureCenterPoint = <<NULL, NULL>> \/ Unmeasured THEN s
  ELSE Then(calcNewScaledOffsetForZoomCentering(s.offsets["y"].value,
              I(originalHeight), s.zoomLevel, newZoomLevel, zoomCenter[2]),
         LAMBDA offsetY :
           Then(calcNewScaledOffsetForZoomCentering(s.offsets["x"].value,
                  I(originalWidth), s.zoomLevel, newZoomLevel, zoomCenter[1]),
         LAMBDA offsetX :
           PinchShifted(_calcOffsetShiftSinceLastGestureState(s, gestureCenterPoint),
                        offsetX, offsetY, newZoomLevel)))

\* _handlePinching from the touch distance on
PinchByDistance(s, distance, gestureCenterPoint) ==
  IF ~Truthy(distance) \/ ~Truthy(s.lastGestureTouchDistance) THEN s
  ELSE IF PinchToZoomSensitivity(distance, s.lastGestureTouchDistance) = NULL
    THEN [s EXCEPT !.lastGestureTouchDistance = distance]
  ELSE Then(PinchZoomLevel(s.zoomLevel, distance, s.lastGestureTouchDistance),
         LAMBDA newZoomLevel :
           PinchAround([s EXCEPT !.lastGestureTouchDistance = distance],
                       newZoomLevel, gestureCenterPoint,
                       PinchZoomCenter(gestureCenterPoint)))

\* _handlePinching without the early return after onZoomBefore
_handlePinchingNoVeto(s, touches, veto) ==
  IF ~props.zoomEnabled THEN s
  ELSE PinchByDistance(Call(s, "onZoomBefore"),
         calcGestureTouchDistance(touches), calcGestureCenterPoint(touches))

\* _handlePinching; veto is what onZoomBefore returns
_handlePinching(s, touches, veto) ==
  IF ~props.zoomEnabled THEN s
  ELSE IF props.onZoomBefore /\ veto THEN Call(s, "onZoomBefore")
  ELSE PinchByDistance(Call(s, "onZoomBefore"),
         calcGestureTouchDistance(touches), calcGestureCenterPoint(touches))

\* the branch of _handlePanResponderMove for two touches
MoveTwoTouches(s, touches, vetoZoom) ==
  IF s.gestureType # "pinch"
    THEN _handlePinching(
           [s EXCEPT !.lastGestureCenterPosition = calcGestureCenterPoint(touches),
                     !.lastGestureTouchDistance = calcGestureTouchDistance(touches),
                     !.gestureType = "pinch"], touches, vetoZoom)
    ELSE _handlePinching(s, touches, vetoZoom)

\* if (this.longPressTimeout && (Math.abs(dx) > 5 || Math.abs(dy) > 5))
ClearLongPressIfMoved(s, gs) ==
  IF s.longPressTimeout # 0 /\ (RGt(RAbs(gs.dx), I(5)) \/ RGt(RAbs(gs.dy), I(5)))
    THEN ClearLongPress(s) ELSE s

\* if (this.gestureType !== 'shift') this.lastGestureCenterPosition = ...
SwitchToShift(s, touches) ==
  IF s.gestureType # "shift"
    THEN [s EXCEPT !.lastGestureCenterPosition = calcGestureCenterPoint(touches)]
    ELSE s

\* the branch of _handlePanResponderMove for one touch
MoveOneTouch(s, touches, gs, vetoShift) ==
  IF RGt(RAbs(gs.dx), I(2)) \/ RGt(RAbs(gs.dy), I(2))
    THEN _handleShifting(
           [SwitchToShift(ClearLongPressIfMoved(s, gs), touches)
              EXCEPT !.gestureType = "shift"], gs, vetoShift)
    ELSE SwitchToShift(ClearLongPressIfMoved(s, gs), touches)

\* if (!this.gestureStarted) this._handlePanResponderGrant(e, gestureState)
GrantIfNotStarted(s) ==
  IF ~s.gestureStarted THEN _handlePanResponderGrant(s) ELSE s

\* _handlePanResponderMove
_handlePanResponderMove(s, touches, gs, vetoShift, vetoZoom) ==
  IF gs.n > 2
    THEN (IF s.gestureStarted THEN _handlePanResponderEnd(s, touches[1], gs) ELSE s)
  ELSE IF gs.n = 2
    THEN Then(ClearLongPress(GrantIfNotStarted(s)),
              LAMBDA s1 : MoveTwoTouches(s1, touches, vetoZoom))
  ELSE IF gs.n = 1
    THEN Then(GrantIfNotStarted(s),
              LAMBDA s1 : MoveOneTouch(s1, touches, gs, vetoShift))
  ELSE GrantIfNotStarted(s)

\* ------------------------------------------------------------------------
\* Animation frames (the native driver's value updates) and completions
\* ------------------------------------------------------------------------

\* panAnim[axis] is updated to v by its running animation
PanAxisUpdate(s, axis, v) == PanListener([s EXCEPT !.panAnim[axis].value = v])

\* the running animation of panAnim[axis] delivers its last value and ends;
\* if a listener replaced it meanwhile, the replaced animation's callback has
\* already run
PanAxisFinish(s, axis) ==
  LET an == s.panAnim[axis].anim
      s1 == PanAxisUpdate(s, axis, an.to)
  IN  IF s1.panAnim[axis].anim = an THEN StopPanAxis(s1, axis) ELSE s1

\* zoomAnim is updated to v by its running animation: the constructor's
\* listener stores the level, then zoomTo's listener re-centers panAnim
ZoomUpdate(s, v) ==
  LET s1 == [s EXCEPT !.zoomAnim.value = v, !.zoomLevel = v]
      l == s1.zoomAnim.listener
      s2 == PanSetValue(s1,
              calcNewScaledOffsetForZoomCentering(s1.offsets["x"].value,
                I(originalWidth), l.prevScale, v, l.center[1]),
              calcNewScaledOffsetForZoomCentering(s1.offsets["y"].value,
                I(originalHeight), l.prevScale, v, l.center[2]))
  IN  IF l.on THEN [s2 EXCEPT !.zoomAnim.listener.prevScale = v] ELSE s1

ZoomFinish(s) == ZoomStopAnimation(ZoomUpdate(s, s.zoomAnim.anim.to))

\* ------------------------------------------------------------------------
\* Bounds and inputs
\* ------------------------------------------------------------------------

MaxOps == 4      \* client calls and touch events in a run of Spec
MaxEarlyOps == 1 \* of them, before the view is measured
MaxEarlyRun == 2 \* and in a run in which one came before the view was measured
MaxTaps == 4     \* taps in a run of SpecTap
MaxTicks == 4    \* clock ticks (of 100 ms) in a run

P(x, y) == <<I(x), I(y)>>

\* the measurement of the wrapper view: width, height, pageX, pageY
Layouts == {<<300, 200, 20, 10>>}

\* where a touch sequence starts (where it starts matters to the tap-to-move
\* of a view with a static pin only), and where a single finger moves to
GrantPoints ==
  IF props.staticPinPosition = <<NULL, NULL>> THEN {P(170, 110)}
  ELSE {P(170, 110), P(200, 110)}
MovePoints == {P(174, 110), P(230, 110)}
\* two fingers, 300 apart and 75 apart (lastGestureTouchDistance starts at 150)
PinchTouches == {<<P(20, 110), P(320, 110)>>, <<P(170, 110), P(245, 110)>>}
ThreeTouches == <<P(95, 110), P(245, 110), P(170, 50)>>
MoveTouches == {<<pt>> : pt \in MovePoints} \cup PinchTouches \cup {ThreeTouches}
\* release velocities (px/ms)
Velocities == {<<I(0), I(0)>>, <<R(3, 10), I(0)>>}

\* zoomTo's arguments: a level and, or not, a zoom center
ZoomToArgs ==
  { <<R(3, 2), P(150, 100)>>, <<I(2), <<NULL, NULL>> >>,
    <<R(-1, 2), <<NULL, NULL>> >> }
ZoomByChanges == {NULL, I(0), R(-1, 2)}
MoveToPoints == {P(150, 100), P(120, 100)}
MoveByChanges == {P(30, 0), P(0, 300)}

\* what a vetoing callback may return at a call
Vetoes(present) == IF present THEN {FALSE, TRUE} ELSE {FALSE}

\* the part of the state an operation's effect is compared with
Snapshot ==
  [ zoomLevel |-> zoomLevel, offsets |-> offsets, panAnim |-> panAnim,
    zoomAnim |-> zoomAnim, gestureType |-> gestureType ]

NoArgs == [a |-> NULL, b |-> <<NULL, NULL>>, veto |-> FALSE, result |-> FALSE]

Record(op, args) ==
  last' = [op |-> op, a |-> args.a, b |-> args.b, veto |-> args.veto,
           result |-> args.result, pre |-> Snapshot]

Op ==
  /\ nOps < (IF Unmeasured \/ earlyOps > 0 THEN MaxEarlyRun ELSE MaxOps)
  /\ Unmeasured => earlyOps < MaxEarlyOps
  /\ nOps' = nOps + 1
  /\ earlyOps' = IF Unmeasured THEN earlyOps + 1 ELSE earlyOps

Layout == <<originalWidth, originalHeight, originalPageX, originalPageY>>

\* ------------------------------------------------------------------------
\* Initial state: the constructor
\* ------------------------------------------------------------------------

InitialZoomLevel(pr) == IF Truthy(pr.initialZoom) THEN pr.initialZoom ELSE I(1)

Mounted(choices) ==
  /\ props \in choices
  /\ originalWidth = 0 /\ originalHeight = 0
  /\ originalPageX = 0 /\ originalPageY = 0
  /\ zoomLevel = InitialZoomLevel(props)
  /\ offsets = [a \in Axes |->
       [ value |-> IF a = "x" THEN props.initialOffsetX ELSE props.initialOffsetY,
         boundaryCrossedAnimInEffect |-> FALSE ]]
  /\ panAnim = [a \in Axes |-> [value |-> offsets[a].value, anim |-> NoAnim]]
  /\ panGroup = [left |-> 0, cb |-> "none"]
  /\ zoomAnim = [ value |-> zoomLevel, anim |-> NoAnim,
                  listener |-> [on |-> FALSE, prevScale |-> I(1),
                                center |-> <<NULL, NULL>>] ]
  /\ gestureType = "null"
  /\ gestureStarted = FALSE
  /\ lastGestureCenterPosition = <<NULL, NULL>>
  /\ lastGestureTouchDistance = I(150)
  /\ responder = [active |-> FALSE, start |-> <<NULL, NULL>>,
                  page |-> <<NULL, NULL>>, moved |-> FALSE]
  /\ longPressTimeout = 0
  /\ singleTapTimeoutId = 0
  /\ doubleTapFirstTapReleaseTimestamp = 0
  /\ doubleTapFirstTap = <<NULL, NULL>>
  /\ timers = {}
  /\ timerSeq = 0
  /\ now = 1000
  /\ taps = <<>>
  /\ last = [op |-> "init", a |-> NULL, b |-> <<NULL, NULL>>, veto |-> FALSE,
             result |-> FALSE, pre |-> Snapshot]
  /\ calls = <<>>
  /\ nOps = 0
  /\ earlyOps = 0

\* ------------------------------------------------------------------------
\* Actions
\* ------------------------------------------------------------------------

\* measureZoomSubject's measure callback: the first non-zero measurement
MeasureZoomSubject ==
  /\ Unmeasured
  /\ \E l \in Layouts :
       /\ originalWidth' = l[1] /\ originalHeight' = l[2]
       /\ originalPageX' = l[3] /\ originalPageY' = l[4]
  /\ Commit(Self)
  /\ Record("measure", NoArgs)
  /\ UNCHANGED <<props, responder, now, nOps, earlyOps>>

\* ref.zoomTo(level, center); a zoom level of exactly 0 is not exercised
ZoomTo ==
  /\ Op
  /\ \E arg \in ZoomToArgs :
       LET z == zoomTo(Self, arg[1], arg[2])
       IN  /\ Commit(z.s)
           /\ Record("zoomTo", [a |-> arg[1], b |-> arg[2], veto |-> FALSE,
                                result |-> z.result])
  /\ UNCHANGED <<props, Layout, responder, now>>

\* ref.zoomBy(change)
ZoomBy ==
  /\ Op
  /\ \E change \in ZoomByChanges :
       LET z == zoomBy(Self, change)
       IN  /\ RAdd(zoomLevel, ZoomByChange(change)) # I(0)
           /\ Commit(z.s)
           /\ Record("zoomBy", [a |-> change, b |-> <<NULL, NULL>>,
                                veto |-> FALSE, result |-> z.result])
  /\ UNCHANGED <<props, Layout, responder, now>>

\* ref.moveTo(x, y)
MoveTo ==
  /\ Op
  /\ \E pt \in MoveToPoints, veto \in Vetoes(props.onShiftingBefore) :
       /\ Commit(moveTo(Self, pt[1], pt[2], veto))
       /\ Record("moveTo", [a |-> NULL, b |-> pt, veto |-> veto, result |-> FALSE])
  /\ UNCHANGED <<props, Layout, responder, now>>

\* ref.moveBy(dx, dy)
MoveBy ==
  /\ Op
  /\ \E d \in MoveByChanges, veto \in Vetoes(props.onShiftingBefore) :
       /\ Commit(moveBy(Self, d[1], d[2], veto))
       /\ Record("moveBy", [a |-> NULL, b |-> d, veto |-> veto, result |-> FALSE])
  /\ UNCHANGED <<props, Layout, responder, now>>

\* a touch sequence starts: _handlePanResponderGrant
Grant ==
  /\ ~responder.active
  /\ \E pt \in GrantPoints :
       responder' = [active |-> TRUE, start |-> pt, page |-> pt, moved |-> FALSE]
  /\ Commit(_handlePanResponderGrant(Self))
  /\ Record("grant", NoArgs)
  /\ UNCHANGED <<props, Layout, now>>

GestureState(touches, v) ==
  [ n |-> Len(touches),
    dx |-> RSub(touches[1][1], responder.start[1]),
    dy |-> RSub(touches[1][2], responder.start[2]),
    moveX |-> touches[1][1], moveY |-> touches[1][2],
    vx |-> v[1], vy |-> v[2] ]

\* a pinch move that would arrive at a zoom level of exactly 0 (possible only
\* below a minZoom of 0), where the transform is singular; not exercised
PinchReachesZero(touches) ==
  /\ Len(touches) = 2
  /\ props.zoomEnabled
  /\ LET lastDistance == IF gestureType # "pinch"
                           THEN calcGestureTouchDistance(touches)
                           ELSE lastGestureTouchDistance
     IN  /\ Truthy(lastDistance)
         /\ PinchZoomLevel(zoomLevel, calcGestureTouchDistance(touches),
                           lastDistance) = I(0)

\* the touches move: _handlePanResponderMove with one, two or three touches
PanResponderMove ==
  /\ Op
  /\ responder.active
  /\ \E touches \in MoveTouches,
        vetoShift \in Vetoes(props.onShiftingBefore),
        vetoZoom \in Vetoes(props.onZoomBefore) :
       /\ ~PinchReachesZero(touches)
       /\ Commit(_handlePanResponderMove(Self, touches,
                   GestureState(touches, <<I(0), I(0)>>), vetoShift, vetoZoom))
       /\ responder' = [responder EXCEPT !.page = touches[1], !.moved = TRUE]
       /\ Record("move", [a |-> I(Len(touches)), b |-> touches[1],
                          veto |-> IF Len(touches) = 2 THEN vetoZoom
                                   ELSE vetoShift,
                          result |-> FALSE])
  /\ UNCHANGED <<props, Layout, now>>

ReleaseVelocities == IF responder.moved THEN Velocities ELSE {<<I(0), I(0)>>}

\* what a release is: the second tap of a double tap, a first tap, or the
\* end of a pinch or shift
ReleaseKind ==
  IF gestureType # "null" THEN "release"
  ELSE IF IsSecondTap(Self) THEN "doubleTap"
  ELSE "tap"

\* the touches are lifted: _handlePanResponderEnd
Release ==
  /\ responder.active
  /\ \E v \in ReleaseVelocities :
       /\ Commit(_handlePanResponderEnd(Self, responder.page,
                   GestureState(<<responder.page>>, v)))
       /\ Record(ReleaseKind,
                 [a |-> IF ReleaseKind = "doubleTap"
                          THEN _getNextZoomStep(zoomLevel) ELSE NULL,
                  b |-> v, veto |-> FALSE, result |-> FALSE])
  /\ responder' = [responder EXCEPT !.active = FALSE]
  /\ UNCHANGED <<props, Layout, now>>

\* onPanResponderGrant
PanResponderGrant == Op /\ Grant

\* onPanResponderRelease
PanResponderRelease == Op /\ Release

\* onPanResponderTerminate: _handlePanResponderEnd, then the client's callback
PanResponderTerminate ==
  /\ Op
  /\ responder.active
  /\ Commit(Call(_handlePanResponderEnd(Self, responder.page,
                   GestureState(<<responder.page>>, <<I(0), I(0)>>)),
                 "onPanResponderTerminate"))
  /\ Record("terminate", NoArgs)
  /\ responder' = [responder EXCEPT !.active = FALSE]
  /\ UNCHANGED <<props, Layout, now>>

\* a finger goes down for a tap
TapGrant == Len(taps) < MaxTaps /\ Grant /\ UNCHANGED <<nOps, earlyOps>>

\* and is lifted without having moved
TapRelease == Release /\ UNCHANGED <<nOps, earlyOps>>

\* an animation frame of panAnim[axis]
PanAnimFrame ==
  /\ \E axis \in Axes :
       LET pa == panAnim[axis]
       IN  /\ pa.anim.kind # "none" /\ ~pa.anim.mid /\ pa.value # pa.anim.to
           /\ Commit(PanAxisUpdate([Self EXCEPT !.panAnim[axis].anim.mid = TRUE],
                                   axis, RMid(pa.value, pa.anim.to)))
  /\ Record("panFrame", NoArgs)
  /\ UNCHANGED <<props, Layout, responder, now, nOps, earlyOps>>

\* the last frame of panAnim[axis]'s animation and its completion
PanAnimEnd ==
  /\ \E axis \in Axes :
       /\ panAnim[axis].anim.kind # "none"
       /\ Commit(PanAxisFinish(Self, axis))
  /\ Record("panEnd", NoArgs)
  /\ UNCHANGED <<props, Layout, responder, now, nOps, earlyOps>>

\* an animation frame of zoomAnim
ZoomAnimFrame ==
  /\ zoomAnim.anim.kind # "none" /\ ~zoomAnim.anim.mid
  /\ zoomAnim.value # zoomAnim.anim.to
  /\ RMid(zoomAnim.value, zoomAnim.anim.to) # I(0)
  /\ Commit(ZoomUpdate([Self EXCEPT !.zoomAnim.anim.mid = TRUE],
                       RMid(zoomAnim.value, zoomAnim.anim.to)))
  /\ Record("zoomFrame", NoArgs)
  /\ UNCHANGED <<props, Layout, responder, now, nOps, earlyOps>>

\* the last frame of zoomTo's animation and its completion
ZoomAnimEnd ==
  /\ zoomAnim.anim.kind # "none"
  /\ Commit(ZoomFinish(Self))
  /\ Record("zoomEnd", NoArgs)
  /\ UNCHANGED <<props, Layout, responder, now, nOps, earlyOps>>

\* a pending timer's callback runs, at or after its due time
TimerFires ==
  /\ \E tm \in timers :
       /\ now >= tm.due
       /\ Commit(IF tm.kind = "singleTap" THEN SingleTapTimeout(Self, tm)
                 ELSE LongPressTimeout(Self, tm))
       /\ Record("timer", [NoArgs EXCEPT !.a = I(tm.id)])
  /\ UNCHANGED <<props, Layout, responder, now, nOps, earlyOps>>

\* time passes; only pending timers and the first tap's timestamp, which is
\* set together with a timer, depend on it
Tick ==
  /\ timers # {}
  /\ now < 1000 + 100 * MaxTicks
  /\ now' = now + 100
  /\ Commit(Self)
  /\ Record("tick", NoArgs)
  /\ UNCHANGED <<props, Layout, responder, nOps, earlyOps>>

\* ------------------------------------------------------------------------
\* Specifications
\* ------------------------------------------------------------------------

\* Spec: client calls, gestures and animations, in any order, within the
\* double-tap delay of each other (the clock stands still)
Init == Mounted(PropChoices)

Next ==
  \/ MeasureZoomSubject
  \/ ZoomTo
  \/ ZoomBy
  \/ MoveTo
  \/ MoveBy
  \/ PanResponderGrant
  \/ PanResponderMove
  \/ PanResponderRelease
  \/ PanResponderTerminate
  \/ PanAnimFrame
  \/ PanAnimEnd
  \/ ZoomAnimFrame
  \/ ZoomAnimEnd

Spec == Init /\ [][Next]_vars

\* SpecTap: taps over time, their timers and the animations they start
InitTap == Mounted(TapPropChoices)

NextTap ==
  \/ MeasureZoomSubject
  \/ TapGrant
  \/ TapRelease
  \/ PanAnimEnd
  \/ ZoomAnimFrame
  \/ ZoomAnimEnd
  \/ TimerFires
  \/ Tick

SpecTap == InitTap /\ [][NextTap]_vars

\* SpecGesture: the operations of Spec on a view whose callbacks may veto a
\* zoom step, or whose panning is disabled
InitGesture == Mounted(GesturePropChoices)

SpecGesture == InitGesture /\ [][Next]_vars

\* SpecPress: one or more gestures over time on a view with onLongPress, and
\* the timers they set
InitPress == Mounted(PressPropChoices)

NextPress ==
  \/ MeasureZoomSubject
  \/ PanResponderGrant
  \/ PanResponderMove
  \/ PanResponderRelease
  \/ PanResponderTerminate
  \/ TimerFires
  \/ Tick

SpecPress == InitPress /\ [][NextPress]_vars

\* SpecPin: the taps of SpecTap on a view with a static pin
InitPin == Mounted(PinPropChoices)

SpecPin == InitPin /\ [][NextTap]_vars

\* ------------------------------------------------------------------------
\* Properties
\* ------------------------------------------------------------------------

NoPoint == <<NULL, NULL>>

\* both zoom limits are given and minZoom <= initialZoom <= maxZoom
ZoomLimitsOrdered ==
  /\ props.minZoom # NULL /\ props.maxZoom # NULL
  /\ RLe(props.minZoom, props.initialZoom)
  /\ RLe(props.initialZoom, props.maxZoom)

InZoomLimits(level) == RLe(props.minZoom, level) /\ RLe(level, props.maxZoom)

\* the last step was a pinch move that assigned a zoom level
PinchAssigned ==
  last.op = "move" /\ last.a = I(2) /\ Len(calls) > 0
    /\ calls[Len(calls)] = "onZoomAfter"

\* C1: given minZoom <= initialZoom <= maxZoom, every zoom level a pinch
\* move assigns and every zoom level a zoom animation is started to (by
\* zoomTo, zoomBy or a double tap) lies within [minZoom, maxZoom].
C1_ZoomLevelsWithinLimits ==
  ZoomLimitsOrdered =>
    /\ PinchAssigned => InZoomLimits(zoomLevel)
    /\ zoomAnim.anim.kind # "none" => InZoomLimits(zoomAnim.anim.to)

\* no touch is down, no gesture is being handled and no animation runs
AtRest ==
  /\ ~responder.active
  /\ gestureType = "null"
  /\ zoomAnim.anim.kind = "none"
  /\ \A axis \in Axes : panAnim[axis].anim.kind = "none"

\* the stored offset of the axis is its pan-boundary-clamped value, to three
\* decimals
OffsetWithinPanBoundaries(axis) ==
  ~BoundariesApplied(BoundOffset(axis, offsets[axis].value, zoomLevel),
                     offsets[axis].value)

\* C2: with bindToBorders and the view measured (before the first gesture
\* or call), whenever no gesture is in progress and no pan or zoom animation
\* is running, the stored offset on each axis equals its
\* pan-boundary-clamped value (to three decimals).
C2_OffsetsWithinPanBoundaries ==
  props.bindToBorders /\ ~Unmeasured /\ earlyOps = 0 /\ AtRest =>
    \A axis \in Axes : OffsetWithinPanBoundaries(axis)

\* what zoomTo is said to reject: zoom disabled, a level above maxZoom, a
\* level below minZoom
OutsideZoomLimits(level) ==
  \/ ~props.zoomEnabled
  \/ props.maxZoom # NULL /\ RGt(level, props.maxZoom)
  \/ props.minZoom # NULL /\ RLt(level, props.minZoom)

\* the zoom animation runs to the level, from its first frame on
ZoomAnimationStartedTo(level) ==
  zoomAnim.anim = [kind |-> "timing", to |-> level, mid |-> FALSE, grp |-> FALSE]

\* C7: zoomTo(level) returns false, invokes no callback and leaves the zoom
\* level, the offsets and the animated values (their animations and
\* listeners) as they were when zoom is disabled or the level is above
\* maxZoom or below minZoom; otherwise it returns true and starts the zoom
\* animation to the level.
C7_ZoomToRejectsOutsideLimits ==
  last.op = "zoomTo" =>
    IF OutsideZoomLimits(last.a)
      THEN ~last.result /\ calls = <<>> /\ Snapshot = last.pre
      ELSE last.result /\ ZoomAnimationStartedTo(last.a)

\* the change zoomBy is said to apply: zoomStep for a change of 0 or none
\* (and nothing when there is no zoomStep either)
ChangeOrZoomStep(change) ==
  IF change # NULL /\ change # I(0) THEN change
  ELSE IF props.zoomStep # NULL THEN props.zoomStep
  ELSE I(0)

\* zoomTo(level) without a zoom center, called in the state before the last
\* operation
ZoomToBefore(level) ==
  zoomTo([zoomLevel |-> last.pre.zoomLevel, zoomAnim |-> last.pre.zoomAnim,
          calls |-> <<>>], level, NoPoint)

OffsetIs(axis, v) == offsets[axis].value = v /\ panAnim[axis].value = v

\* offset - change / zoomLevel, in the state before the last operation
MoveByTarget ==
  << RSub(last.pre.offsets["x"].value, RDiv(last.b[1], last.pre.zoomLevel)),
     RSub(last.pre.offsets["y"].value, RDiv(last.b[2], last.pre.zoomLevel)) >>

\* C9: unless vetoed, after moveBy(dx, dy) the stored offset and
\* the pan animated value are (offsetX - dx / zoomLevel, offsetY - dy /
\* zoomLevel), the zoom level is unchanged and onShiftingAfter was invoked.
C9_MoveBySetsOffset ==
  last.op = "moveBy" /\ ~last.veto =>
    /\ \A axis \in Axes : OffsetIs(axis, Ax(MoveByTarget, axis))
    /\ zoomLevel = last.pre.zoomLevel
    /\ calls = <<"onShiftingBefore", "onShiftingAfter">>

\* (-(x - originalWidth / 2) / zoomLevel, -(y - originalHeight / 2) /
\* zoomLevel), in the state before the last operation
MoveToTarget ==
  << RNeg(RDiv(RSub(last.b[1], RDiv(I(originalWidth), I(2))), last.pre.zoomLevel)),
     RNeg(RDiv(RSub(last.b[2], RDiv(I(originalHeight), I(2))), last.pre.zoomLevel)) >>

\* C10: moveTo(x, y) changes nothing while the view is not
\* measured; once measured, unless vetoed, it sets the offset to
\* (-(x - originalWidth / 2) / zoomLevel, -(y - originalHeight / 2) / zoomLevel).
C10_MoveToSetsOffset ==
  last.op = "moveTo" =>
    IF Unmeasured THEN Snapshot = last.pre /\ calls = <<>>
    ELSE ~last.veto => \A axis \in Axes : OffsetIs(axis, Ax(MoveToTarget, axis))

\* a non-negative level in hundredths, rounded half up
Hundredths(level) == (200 * level[1] + level[2]) \div (2 * level[2])

\* the level is "zoomed all the way in": maxZoom to two decimals
ZoomedAllTheWayIn(level) == Hundredths(level) = Hundredths(props.maxZoom)

\* the smaller of two levels
RMin(a, b) == IF RLe(a, b) THEN a ELSE b

\* the double-tap handler has started a zoom animation to `level` (the level
\* is one zoomTo accepts), or none (zoomTo rejects it)
DoubleTapZoomsTo(level) ==
  IF OutsideZoomLimits(level)
    THEN zoomAnim = last.pre.zoomAnim
    ELSE ZoomAnimationStartedTo(level)

\* C3: on a double tap at zoom level z, _getNextZoomStep returns nothing when
\* maxZoom is null; else initialZoom when z equals maxZoom to two decimals;
\* else nothing when zoomStep is null; else min(z * (1 + zoomStep), maxZoom).
\* The handler zooms to what it returns and does nothing when it returns
\* nothing.
C3_NextZoomStep ==
  last.op = "doubleTap" =>
    LET z == last.pre.zoomLevel
    IN  IF props.maxZoom = NULL
          THEN last.a = NULL /\ zoomAnim = last.pre.zoomAnim
        ELSE IF ZoomedAllTheWayIn(z)
          THEN last.a = props.initialZoom /\ DoubleTapZoomsTo(props.initialZoom)
        ELSE IF props.zoomStep = NULL
          THEN last.a = NULL /\ zoomAnim = last.pre.zoomAnim
        ELSE /\ last.a = RMin(RMul(z, RAdd(I(1), props.zoomStep)), props.maxZoom)
             /\ DoubleTapZoomsTo(last.a)

\* C3's case: a double tap at a level that is maxZoom to two decimals only
\* has returned initialZoom
C3_Witness ==
  /\ last.op = "doubleTap"
  /\ props.maxZoom # NULL /\ last.pre.zoomLevel # props.maxZoom
  /\ ZoomedAllTheWayIn(last.pre.zoomLevel)
  /\ last.a = props.initialZoom
  /\ ZoomAnimationStartedTo(props.initialZoom)

\* C4's preconditions on the props
DoubleTapCycleProps ==
  /\ props.zoomEnabled
  /\ props.zoomStep # NULL /\ RGt(props.zoomStep, I(0))
  /\ ZoomLimitsOrdered

SecondTap(k) ==
  /\ k > 1 /\ taps[k - 1].first
  /\ taps[k].release - taps[k - 1].release < props.doubleTapDelay

\* C5: when a tap is released less than doubleTapDelay after the release of
\* the previous tap, the double-tap handler runs once for it and onSingleTap
\* is invoked for neither of the two; after a double tap the first-tap
\* timestamp, the first tap and the timer id are cleared and the single-tap
\* timer is gone.
C5_DoubleTapDetected ==
  /\ \A k \in DOMAIN taps :
       SecondTap(k) =>
         /\ taps[k].doubleTap = 1
         /\ taps[k].singleTap = 0 /\ taps[k - 1].singleTap = 0
  /\ last.op = "doubleTap" =>
       /\ doubleTapFirstTapReleaseTimestamp = 0
       /\ doubleTapFirstTap = NoPoint
       /\ singleTapTimeoutId = 0
       /\ \A tm \in timers : tm.id # taps[Len(taps) - 1].timer

\* no tap was released less than doubleTapDelay after tap k
NotFollowedWithinDelay(k) ==
  k < Len(taps) => taps[k + 1].release - taps[k].release >= props.doubleTapDelay

\* the single-tap timer of tap k is pending, due doubleTapDelay after the release
SingleTapPending(k) ==
  \E tm \in timers :
    /\ tm.id = taps[k].timer /\ tm.kind = "singleTap"
    /\ tm.due = taps[k].release + props.doubleTapDelay

\* for a tap that is not the second tap of a double tap, onSingleTap is
\* invoked at most once and never before doubleTapDelay has elapsed since
\* its release; if no tap release follows it within doubleTapDelay,
\* onSingleTap was invoked or its timer is still pending, due doubleTapDelay
\* after the release
SingleTapOnceNotEarly ==
  \A k \in DOMAIN taps :
    taps[k].first =>
      /\ taps[k].singleTap <= 1
      /\ taps[k].singleTap = 1 =>
           taps[k].singleTapAt >= taps[k].release + props.doubleTapDelay
      /\ NotFollowedWithinDelay(k) =>
           (taps[k].singleTap = 1) # SingleTapPending(k)

\* doubleTapDelay has elapsed since the release of tap k, which is not the
\* second tap of a double tap, and no tap release has followed it in that time
SingleTapDue(k) ==
  /\ k \in DOMAIN taps /\ taps[k].first
  /\ now >= taps[k].release + props.doubleTapDelay
  /\ NotFollowedWithinDelay(k)

\* onSingleTap was invoked for tap k
SingleTapInvoked(k) == k \in DOMAIN taps /\ taps[k].singleTap = 1

\* SpecTap, where a timer that is due does run: the runtime's event loop
\* calls the callback of every timer that has expired
SpecTapFair == SpecTap /\ WF_vars(TimerFires)

\* C6: for a tap that is not the second tap of a double tap and is not
\* followed by another tap release within doubleTapDelay, onSingleTap is
\* invoked exactly once: it is invoked once doubleTapDelay has elapsed since
\* the release, never earlier and never a second time.
C6_SingleTap ==
  /\ []SingleTapOnceNotEarly
  /\ \A k \in 1..MaxTaps : SingleTapDue(k) ~> SingleTapInvoked(k)

\* C6's case: onSingleTap was invoked for a tap, doubleTapDelay after its
\* release, and a later tap has followed it
C6_Witness ==
  /\ last.op = "timer"
  /\ \E k \in DOMAIN taps :
       /\ taps[k].first /\ k < Len(taps) /\ NotFollowedWithinDelay(k)
       /\ taps[k].singleTap = 1
       /\ taps[k].singleTapAt = now
       /\ calls = <<"onSingleTap">>

\* ------------------------------------------------------------------------
\* Vetoes and disabled panning (SpecGesture, Spec)
\* ------------------------------------------------------------------------

\* whether the last operation invoked the callback
Invoked(name) == \E i \in DOMAIN calls : calls[i] = name

\* the last operation was a two-finger move for which onZoomBefore was
\* invoked and returned true
PinchVetoed ==
  /\ last.op = "move" /\ last.a = I(2)
  /\ props.onZoomBefore /\ last.veto
  /\ Invoked("onZoomBefore")

\* the values of the offsets and of panAnim are as before the last operation
PanValuesUnchanged ==
  \A a \in Axes :
    /\ offsets[a].value = last.pre.offsets[a].value
    /\ panAnim[a].value = last.pre.panAnim[a].value

\* C11: a pinch move for which onZoomBefore returns true leaves the zoom
\* level, the offsets and the values of panAnim and zoomAnim as they were,
\* and onZoomAfter is not invoked for it
C11_PinchVeto ==
  PinchVetoed =>
    /\ zoomLevel = last.pre.zoomLevel
    /\ zoomAnim.value = last.pre.zoomAnim.value
    /\ PanValuesUnchanged
    /\ ~Invoked("onZoomAfter")

\* a vetoed move of a pinch that had already zoomed
C11_Witness ==
  /\ PinchVetoed
  /\ last.pre.gestureType = "pinch"
  /\ zoomLevel # InitialZoomLevel(props)

\* the last operation was a pan step: a single-finger move, moveTo or moveBy
\* that got as far as onShiftingBefore
PanStep ==
  /\ \/ last.op \in {"moveTo", "moveBy"}
     \/ last.op = "move" /\ last.a = I(1)
  /\ Invoked("onShiftingBefore")

\* onShiftingBefore returned true for it
ShiftVetoed == PanStep /\ props.onShiftingBefore /\ last.veto

\* where moveTo or moveBy, as the last operation, was to move the content
PanStepTarget == IF last.op = "moveBy" THEN MoveByTarget ELSE MoveToTarget

\* panAnim was set to the offset the step arrived at: the stored offset for
\* a drag; for moveTo and moveBy the new offset, or the old one where
\* __setOffset did not store the new one
PanAnimSetToOffset(a) ==
  IF last.op = "move" THEN panAnim[a].value = offsets[a].value
  ELSE panAnim[a].value \in {Ax(PanStepTarget, a), last.pre.offsets[a].value}

PanDisabledMove ==
  /\ last.op = "move" /\ last.a = I(1)
  /\ \/ ~props.panEnabled
     \/ /\ props.disablePanOnInitialZoom
        /\ last.pre.zoomLevel = props.initialZoom

\* C13: with panEnabled false, or with disablePanOnInitialZoom at the initial
\* zoom level, a single-finger move leaves the offsets unchanged and invokes
\* neither onShiftingBefore nor onShiftingAfter
C13_PanDisabled ==
  PanDisabledMove =>
    /\ \A a \in Axes : offsets[a].value = last.pre.offsets[a].value
    /\ ~Invoked("onShiftingBefore")
    /\ ~Invoked("onShiftingAfter")

\* a move far enough to count as a shift, while the gesture already was one,
\* at the initial zoom level of a view with disablePanOnInitialZoom
C13_Witness ==
  /\ PanDisabledMove
  /\ props.disablePanOnInitialZoom
  /\ last.pre.gestureType = "shift" /\ gestureType = "shift"
  /\ last.b = P(230, 110)

\* ------------------------------------------------------------------------
\* Momentum (SpecGesture)
\* ------------------------------------------------------------------------

\* the last operation ran _handlePanResponderEnd
GestureEnded == Invoked("onPanResponderEnd")

\* the velocity of the gesture state it ran with
EndVelocity ==
  IF last.op \in {"release", "tap", "doubleTap"} THEN last.b ELSE <<I(0), I(0)>>

\* the cases in which no momentum is to follow
MomentumOff ==
  \/ props.disableMomentum
  \/ props.disablePanOnInitialZoom /\ last.pre.zoomLevel = props.initialZoom

\* a decay animation of panAnim[a] has just been started with the velocity
MomentumStarted(a, velocity) ==
  /\ panAnim[a].anim.kind = "decay" /\ ~panAnim[a].anim.mid
  /\ panAnim[a].anim.to = DecayRest(last.pre.panAnim[a].value, velocity)

\* C14: the end of a gesture starts a decay animation of panAnim with the
\* velocity (vx / zoomLevel, vy / zoomLevel), unless disableMomentum is set or
\* disablePanOnInitialZoom is set and the zoom level is the initial one; in
\* those cases it starts no animation of panAnim
C14_Momentum ==
  GestureEnded =>
    \A a \in Axes :
      IF MomentumOff
        THEN panAnim[a].anim = last.pre.panAnim[a].anim
        ELSE MomentumStarted(a, RDiv(Ax(EndVelocity, a), zoomLevel))

\* ------------------------------------------------------------------------
\* Long press (SpecPress)
\* ------------------------------------------------------------------------

\* the pending long-press timers
LongPressTimers(tms) == {tm \in tms : tm.kind = "longPress"}

InvokedIn(cs, name) == \E i \in DOMAIN cs : cs[i] = name

\* the last operation was a single-finger move with |dx| > 5 or |dy| > 5
MovedFar ==
  /\ last.op = "move" /\ last.a = I(1)
  /\ \/ RGt(RAbs(RSub(last.b[1], responder.start[1])), I(5))
     \/ RGt(RAbs(RSub(last.b[2], responder.start[2])), I(5))

\* the last operation ended or terminated the gesture, or was a two-finger
\* move or a far single-finger move
CancelsLongPress ==
  \/ Invoked("onPanResponderEnd")
  \/ last.op = "move" /\ last.a = I(2)
  \/ MovedFar

\* the last operation granted a gesture that is still in its first moment
JustGranted == Invoked("onPanResponderGrant") /\ ~CancelsLongPress

\* a pending long-press timer is the one of the gesture in progress; once
\* the gesture is cancelled for the long press none is pending; the timer a
\* grant sets is due longPressDuration later; onLongPress is invoked by a
\* timer only and leaves no timer behind
LongPressPending ==
  /\ \A tm \in LongPressTimers(timers) :
       tm.id = longPressTimeout /\ gestureStarted
  /\ CancelsLongPress => LongPressTimers(timers) = {} /\ longPressTimeout = 0
  /\ JustGranted =>
       \E tm \in LongPressTimers(timers) : tm.due = now + props.longPressDuration
  /\ Invoked("onLongPress") =>
       last.op = "timer" /\ LongPressTimers(timers) = {} /\ longPressTimeout = 0

\* a long-press timer is set by a grant only, and onLongPress is invoked for
\* the pending timer only, not before it is due
LongPressStep ==
  /\ LongPressTimers(timers') \ LongPressTimers(timers) # {} =>
       InvokedIn(calls', "onPanResponderGrant")
  /\ InvokedIn(calls', "onLongPress") =>
       \E tm \in LongPressTimers(timers) :
         /\ tm.id = longPressTimeout /\ now >= tm.due
         /\ tm \notin timers'
         /\ calls' = <<"onLongPress">>

SingleTapTimerFired(k) ==
  /\ last.op = "timer" /\ Invoked("onSingleTap")
  /\ taps[k].first /\ last.a = I(taps[k].timer)

\* a timing animation of panAnim has been started towards
\* offset + (pin - t) / zoomLevel
PanningTowardsPin(t) ==
  \A a \in Axes :
    /\ panAnim[a].anim.kind = "timing" /\ ~panAnim[a].anim.mid
    /\ panAnim[a].anim.to =
         RAdd(last.pre.offsets[a].value,
              RDiv(RSub(Ax(props.staticPinPosition, a), Ax(t, a)),
                   last.pre.zoomLevel))

TimingRuns(pan) == \E a \in Axes : pan[a].anim.kind = "timing"

\* the last operation ended the pan's animation, or replaced it by the next
PanToPinEnded ==
  /\ TimingRuns(last.pre.panAnim)
  /\ ~TimingRuns(panAnim) \/ last.op = "timer"

\* tap k was followed by another within doubleTapDelay of its release
FirstOfDoubleTap(k) ==
  /\ taps[k].first /\ k < Len(taps)
  /\ taps[k + 1].release - taps[k].release < props.doubleTapDelay

\* C16: with staticPinPosition set, the timer of a single tap at t starts,
\* not before doubleTapDelay after the release, a pan animation towards
\* offset + (pin - t) / zoomLevel; when that animation ends
\* onStaticPinPositionChange is invoked; the timer of a tap that was followed
\* by another within doubleTapDelay does not run, and nothing else starts
\* such a pan
C16_TapToMove ==
  /\ \A k \in DOMAIN taps :
       /\ SingleTapTimerFired(k) =>
            /\ now >= taps[k].release + props.doubleTapDelay
            /\ PanningTowardsPin(taps[k].at)
       /\ FirstOfDoubleTap(k) => taps[k].singleTap = 0
  /\ PanToPinEnded => Invoked("onStaticPinPositionChange")
  /\ TimingRuns(panAnim) /\ ~TimingRuns(last.pre.panAnim) => last.op = "timer"

\* ------------------------------------------------------------------------
\* Boundary-crossed animation (SpecAnimFair)
\* ------------------------------------------------------------------------

\* the operations of Spec on a view with the default props, with every
\* running animation of panAnim coming to its end
InitAnim == Mounted({defaultProps})

\* an animation of panAnim is running: the guard of PanAnimEnd
PanAnimRuns == \E a \in Axes : panAnim[a].anim.kind # "none"

\* weak fairness of PanAnimEnd, with its guard for its enabling condition
PanAnimEndFair == []<>~PanAnimRuns \/ []<><<PanAnimEnd>>_vars

SpecAnimFair == InitAnim /\ [][Next]_vars /\ PanAnimEndFair

BoundaryCrossedAnimInEffect(a) == offsets[a].boundaryCrossedAnimInEffect

\* the flag of an axis is set exactly while a boundary-crossed animation
\* runs on that axis; a second one started while it is set would stop the
\* first, whose callback would reset the flag under the running second
BoundaryFlagWhileAnimation ==
  \A a \in Axes :
    BoundaryCrossedAnimInEffect(a) <=> panAnim[a].anim.kind = "boundary"

\* C17: for each axis boundaryCrossedAnimInEffect is true only while a
\* boundary-crossed animation started by __setOffset runs on that axis, no
\* second one is started while it is true, and it is reset when the
\* animation completes or is stopped: it never stays true forever
C17_BoundaryFlag ==
  /\ []BoundaryFlagWhileAnimation
  /\ \A a \in Axes :
       BoundaryCrossedAnimInEffect(a) ~> ~BoundaryCrossedAnimInEffect(a)

\* an update of panAnim arrived from the boundary-crossed animation while
\* the flag was set, and the flag is still set
C17_Witness ==
  \E a \in Axes :
    /\ last.op = "panFrame"
    /\ last.pre.offsets[a].boundaryCrossedAnimInEffect
    /\ BoundaryCrossedAnimInEffect(a) /\ panAnim[a].anim.mid

====
